---------------------------- MODULE Spec2Model ----------------------------
(***************************************************************************)
(* Model of the drzone ecosystem tracker:                                  *)
(*   scripts/query_ecosystem.py  - the Collector (paginated fetches, main) *)
(*   scripts/generate_reports.py - the Reporter (generate_readme and its   *)
(*                                 derived statistics)                     *)
(*                                                                         *)
(* Python values are represented as follows.                               *)
(*   list            sequence                                              *)
(*   str (cursor,    a TLA+ string; the Python None in such a position is  *)
(*        file name) the string "None"                                     *)
(*   str (login)     a sequence of one-character strings, so that lower(), *)
(*                   `in` and startswith can be computed                   *)
(*   dict            a record or a function on its keys                    *)
(*   optional value  [some |-> FALSE] or [some |-> TRUE, val |-> v]        *)
(***************************************************************************)
EXTENDS Integers, Sequences, FiniteSets, TLC

VARIABLES
    run,      \* number of Collector processes started so far (ghost)
    token,    \* TOKEN of the current Collector process (query_ecosystem.py:19)
    status,   \* Collector process: "idle","running","exit1","crashed","done","call","returned"
    stage,    \* statement group of main() the process is at (a category name)
    fpc,      \* position inside the current fetch: "call","while","done","ret"
    limit,    \* the limit argument of the current fetch (limited fetches only)
    acc,      \* the result list the current fetch accumulates (orgs, repos, ...)
    cursor,   \* the local variable cursor of the current fetch
    locals,   \* main()'s local variables user_info, orgs, repos, ...
    log,      \* requests issued by the current process, with their responses (ghost)
    writes,   \* file names written by the current process, in order (ghost)
    disk,     \* the data directory: file name -> optional content
    writer,   \* file name -> number of the run that wrote it last, 0 if none (ghost)
    remote,   \* the remote API as seen by the current process
    rep       \* the Reporter's last generate_readme() call and README.md

vars == <<run, token, status, stage, fpc, limit, acc, cursor, locals, log,
          writes, disk, writer, remote, rep>>

ColVars == <<run, token, status, stage, fpc, limit, acc, cursor, locals, log,
             writes, disk, writer, remote>>

-----------------------------------------------------------------------------
(* Bounds of the model *)

MaxRequests == 2   \* requests one stand-alone fetch may issue (SpecFetch)
MaxPageLen == 2    \* items per page served to a stand-alone fetch (SpecFetch)
MaxLimit == 2      \* largest limit passed to a stand-alone limited fetch
MaxRuns == 2       \* Collector processes started in one behaviour (Spec)
MaxOrgs == 2       \* organizations in organizations.json (SpecReporter)
MaxRepos == 2      \* repositories in repositories.json (SpecReporter)

(* Program constants *)

PageSize == 100        \* first: 100 in every paginated query
RepoLimit == 1000      \* main(): get_repositories(limit=1000)
StarredLimit == 500    \* get_starred_repos(limit: int = 500)
TopOrgs == 10          \* organizations listed per category: sorted(...)[:10]
RecentRepos == 15      \* repos[:15]
TopLanguages == 10     \* languages listed: sorted(...)[:10]

-----------------------------------------------------------------------------
(* Python helpers *)

None == "None"

Nothing == [some |-> FALSE]
Some(v) == [some |-> TRUE, val |-> v]

Min(a, b) == IF a < b THEN a ELSE b
Max(a, b) == IF a > b THEN a ELSE b

\* s[:n], Python's prefix slice (a negative n counts from the end)
PySlice(s, n) ==
    IF n >= 0 THEN SubSeq(s, 1, Min(n, Len(s)))
    ELSE SubSeq(s, 1, Max(0, Len(s) + n))

\* A Python for loop over a list: value == Op(value, s[k]) for k = i..j in
\* list order.  The span is evaluated by halves, the first half before the
\* second is entered, so that the evaluation depth is logarithmic in the
\* length of the list.
RECURSIVE FoldSpan(_, _, _, _, _)
FoldSpan(Op(_, _), value, s, i, j) ==
    IF i > j THEN value
    ELSE IF i = j THEN Op(value, s[i])
    ELSE LET first == FoldSpan(Op, value, s, i, (i + j) \div 2)
         IN IF first = first
            THEN FoldSpan(Op, first, s, (i + j) \div 2 + 1, j)
            ELSE first

FoldLeft(Op(_, _), value, s) == FoldSpan(Op, value, s, 1, Len(s))

\* all sequences over S of length at most n
SeqUpTo(S, n) == UNION {[1..k -> S] : k \in 0..n}

-----------------------------------------------------------------------------
(* The categories main() collects, in its order *)

Stages == <<"user_info", "organizations", "repositories", "followers",
            "following", "starred_repos", "gists", "summary">>

Paginated == {"organizations", "repositories", "followers", "following",
              "starred_repos", "gists"}

\* get_repositories and get_starred_repos take a limit
IsLimited(cat) == cat \in {"repositories", "starred_repos"}

FileOf(cat) ==
    CASE cat = "user_info"     -> "user_info.json"
      [] cat = "organizations" -> "organizations.json"
      [] cat = "repositories"  -> "repositories.json"
      [] cat = "followers"     -> "followers.json"
      [] cat = "following"     -> "following.json"
      [] cat = "starred_repos" -> "starred_repos.json"
      [] cat = "gists"         -> "gists.json"
      [] cat = "summary"       -> "summary.json"

Files == {FileOf(Stages[i]) : i \in 1..Len(Stages)} \cup {"enterprises.json"}

StageIndex(cat) == CHOOSE i \in 1..Len(Stages) : Stages[i] = cat


-----------------------------------------------------------------------------
(* The remote API *)

\* A response to one POST: the transport fails, the status is not a success,
\* or a JSON body arrives.  For a paginated query the body is the connection
\* object {nodes, pageInfo {hasNextPage, endCursor}}; for the viewer query it
\* is the viewer record.
EmptyPage == [nodes |-> <<>>, hasNextPage |-> FALSE, endCursor |-> None]

Failures(errbody) ==
    {[kind |-> "network_error", body |-> errbody],
     [kind |-> "http_error", body |-> errbody]}

Ok(body) == [kind |-> "ok", body |-> body]

Items == {"a", "b"}

FreeCursors == {None, "c1", "c2"}

\* the pages an unconstrained remote may serve to a stand-alone fetch
FreePages ==
    {[nodes |-> n, hasNextPage |-> TRUE, endCursor |-> c] :
        n \in SeqUpTo(Items, MaxPageLen), c \in FreeCursors}
    \cup {[nodes |-> n, hasNextPage |-> FALSE, endCursor |-> None] :
        n \in SeqUpTo(Items, MaxPageLen)}

\* the remote of a stand-alone fetch: any page at any request
FreeRemote == "free"

-----------------------------------------------------------------------------
(* Records served by the remote *)

\* Organizations: the login is a sequence of characters, repositories holds
\* the totalCount the query asks for.  The last one has neither field, which
\* org.get('login', '') and .get('repositories', {}).get('totalCount', 0)
\* read as '' and 0.
OrgPool ==
    {[id |-> 1, login |-> <<"c", "o", "g", "c", "i", "t", "i", "e", "s">>,
      repositories |-> [totalCount |-> 3]],
     [id |-> 2, login |-> <<"C", "o", "g", "C", "i", "t", "i", "e", "s">>,
      repositories |-> [totalCount |-> 12]],
     [id |-> 3, login |-> <<"C", "o", "g", "P", "r", "i", "m", "e">>,
      repositories |-> [totalCount |-> 12]],
     [id |-> 4, login |-> <<"o", "z", "o", "n", "e">>,
      repositories |-> [totalCount |-> 7]],
     [id |-> 5, login |-> <<"h", "y", "p", "e", "r", "z", "o", "n", "e">>,
      repositories |-> [totalCount |-> 0]],
     [id |-> 6, login |-> <<"r", "e", "g", "i", "m", "a", "-", "u", "k">>,
      repositories |-> [totalCount |-> 5]],
     [id |-> 7, login |-> <<"R", "e", "g", "i", "m", "a">>,
      repositories |-> [totalCount |-> 9]],
     [id |-> 8, login |-> <<"o", "9", "n", "n">>,
      repositories |-> [totalCount |-> 1]],
     [id |-> 9, login |-> <<"g", "o", "9">>,
      repositories |-> [totalCount |-> 4]],
     [id |-> 10, login |-> <<"e", "9", "x">>,
      repositories |-> [totalCount |-> 2]],
     [id |-> 11, login |-> <<"o", "r", "g", "-", "e", "c", "h", "o", "-", "1">>,
      repositories |-> [totalCount |-> 6]],
     [id |-> 12, login |-> <<"u", "n", "i", "c", "o", "r", "n">>,
      repositories |-> [totalCount |-> 8]],
     [id |-> 13, login |-> <<"a", "c", "m", "e">>,
      repositories |-> [totalCount |-> 1]],
     [id |-> 14]}

Lang(n) == [some |-> TRUE, name |-> n]
NoLang == [some |-> FALSE]

Repo(n, priv, fork, arch, lang, owner) ==
    [nameWithOwner |-> n, isPrivate |-> priv, isFork |-> fork,
     isArchived |-> arch, primaryLanguage |-> lang, owner |-> owner]

RepoPool ==
    {Repo("drzo/a", FALSE, TRUE, FALSE, Lang("Go"), "drzo"),
     Repo("drzo/b", TRUE, FALSE, FALSE, NoLang, "drzo"),
     Repo("cogcities/c", FALSE, FALSE, TRUE, Lang("Python"), "cogcities"),
     Repo("cogcities/d", TRUE, TRUE, TRUE, Lang("Go"), "cogcities")}

OrgNamed(n) == CHOOSE o \in OrgPool : o.id = n
RepoNamed(n) == CHOOSE r \in RepoPool : r.nameWithOwner = n

CursorNames == <<"c1", "c2", "c3", "c4", "c5", "c6", "c7", "c8", "c9", "c10",
                 "c11", "c12">>

\* A remote collection served as a chain of pages: page i carries the node
\* list lists[i] and the end cursor CursorNames[i], and is requested with
\* the end cursor of page i-1 (the first with no cursor).  more says whether
\* the last page of the chain announces a further page.
Chain(lists, more) ==
    [c \in {None} \cup {CursorNames[i] : i \in 1..(Len(lists) - 1)} |->
        LET i == IF c = None THEN 1
                 ELSE 1 + CHOOSE k \in 1..Len(lists) : CursorNames[k] = c
        IN [nodes |-> lists[i],
            hasNextPage |-> (i < Len(lists) \/ more),
            endCursor |-> CursorNames[i]]]

\* a full page of PageSize items
FullPage(item) == [i \in 1..PageSize |-> item]

\* a small account: every collection but the repositories fits one page
ScenarioSmall ==
    [viewer |-> [login |-> "drzo"],
     pages |->
       [organizations |-> Chain(<< <<OrgNamed(1), OrgNamed(6)>> >>, FALSE),
        repositories  |-> Chain(<< <<RepoNamed("drzo/a"), RepoNamed("drzo/b")>>,
                                   <<RepoNamed("cogcities/c")>> >>, FALSE),
        followers     |-> Chain(<< <<"f1", "f2">> >>, FALSE),
        following     |-> Chain(<< <<>> >>, FALSE),
        starred_repos |-> Chain(<< <<"s1">> >>, FALSE),
        gists         |-> Chain(<< <<"g1">> >>, FALSE)]]

\* a large account: more than RepoLimit repositories and more than
\* StarredLimit starred repositories, in full pages
ScenarioBig ==
    [viewer |-> [login |-> "drzo"],
     pages |->
       [organizations |-> Chain(<< <<OrgNamed(4), OrgNamed(12), OrgNamed(13)>> >>, FALSE),
        repositories  |-> Chain([i \in 1..(RepoLimit \div PageSize) |->
                                   FullPage(RepoNamed("cogcities/d"))], TRUE),
        followers     |-> Chain(<< <<"f1">>, <<"f3">> >>, FALSE),
        following     |-> Chain(<< <<"f2">> >>, FALSE),
        starred_repos |-> Chain([i \in 1..(StarredLimit \div PageSize) |->
                                   FullPage("s2")], TRUE),
        gists         |-> Chain(<< <<>> >>, FALSE)]]

\* the remote a Collector process talks to, by name
Scenarios == {"small", "big"}

RemoteData(rem) == IF rem = "small" THEN ScenarioSmall ELSE ScenarioBig

\* the responses the remote may give to a paginated request
Serve(rem, cat, cur) ==
    Failures(EmptyPage) \cup
    IF rem = FreeRemote THEN {Ok(p) : p \in FreePages}
    ELSE IF cur \in DOMAIN RemoteData(rem).pages[cat]
    THEN {Ok(RemoteData(rem).pages[cat][cur])}
    ELSE {}

\* the responses the remote may give to the viewer query
ServeUser(rem) ==
    Failures([login |-> None]) \cup {Ok(RemoteData(rem).viewer)}

\* the values TOKEN = os.environ.get("GITHUB_TOKEN") may have
Tokens == {None, "", "tok"}

-----------------------------------------------------------------------------
(* query_ecosystem.py: graphql_query and the pagination loops *)

\* variant: raise_for_status() is not called
graphql_query_unchecked(resp) ==
    IF resp.kind = "network_error"
    THEN [raised |-> TRUE, json |-> resp.body]
    ELSE [raised |-> FALSE, json |-> resp.body]

\* requests.post raises on a transport failure, raise_for_status on a
\* non-success status; otherwise the JSON body is returned
graphql_query(resp) ==
    IF resp.kind = "ok"
    THEN [raised |-> FALSE, json |-> resp.body]
    ELSE [raised |-> TRUE, json |-> resp.body]

\* variant: items already collected are skipped
extend_dedupe(list, data) ==
    list \o SelectSeq(data.nodes,
                LAMBDA x : \A k \in 1..Len(list) : list[k] # x)

\* orgs.extend(data.get("nodes", []))
extend(list, data) == list \o data.nodes

\* if not data.get("pageInfo", {}).get("hasNextPage"): break
breaks(data) == ~data.hasNextPage

\* variant: the cursor is never advanced
next_cursor_stale(data) == None

\* cursor = data["pageInfo"]["endCursor"]
next_cursor(data) == data.endCursor

\* variant: a limited fetch loops on while True like the others
loop_cond_forever(cat, list, lim) == TRUE

\* the loop condition: while True / while len(repos) < limit
loop_cond(cat, list, lim) ==
    IF IsLimited(cat) THEN Len(list) < lim ELSE TRUE

\* variant: the result is returned without the slice
fetch_result_unsliced(cat, list, lim) == list

\* the return statement: return orgs / return repos[:limit]
fetch_result(cat, list, lim) ==
    IF IsLimited(cat) THEN PySlice(list, lim) ELSE list

\* the limit main() passes (get_starred_repos is called with its default)
LimitArg(cat) ==
    CASE cat = "repositories"  -> RepoLimit
      [] cat = "starred_repos" -> StarredLimit
      [] OTHER                 -> 0

LogEntry(cat, cur, resp) ==
    [cat |-> cat, cursor |-> cur, kind |-> resp.kind, body |-> resp.body]

\* One iteration of the loop of get_organizations, get_repositories,
\* get_followers, get_following, get_starred_repos or get_gists: the request
\* and the handling of its response, up to the next evaluation of the loop
\* condition.
FetchRequest ==
    /\ status \in {"running", "call"}
    /\ stage \in Paginated
    /\ fpc = "while"
    /\ loop_cond(stage, acc, limit)
    /\ remote = FreeRemote => Len(log) < MaxRequests
    /\ \E resp \in Serve(remote, stage, cursor) :
         LET r == graphql_query(resp) IN
         /\ log' = Append(log, LogEntry(stage, cursor, resp))
         /\ IF r.raised
            THEN /\ status' = "crashed"
                 /\ UNCHANGED <<fpc, acc, cursor>>
            ELSE /\ acc' = extend(acc, r.json)
                 /\ IF breaks(r.json)
                    THEN fpc' = "done" /\ cursor' = cursor
                    ELSE fpc' = "while" /\ cursor' = next_cursor(r.json)
                 /\ UNCHANGED status
    /\ UNCHANGED <<run, token, stage, limit, locals, writes, disk, writer,
                   remote, rep>>

\* the loop condition of a limited fetch is false: the loop is left
FetchExit ==
    /\ status \in {"running", "call"}
    /\ stage \in Paginated
    /\ fpc = "while"
    /\ ~loop_cond(stage, acc, limit)
    /\ fpc' = "done"
    /\ UNCHANGED <<run, token, status, stage, limit, acc, cursor, locals, log,
                   writes, disk, writer, remote, rep>>

\* the return statement of the fetch; the caller binds the result
FetchReturn ==
    /\ status \in {"running", "call"}
    /\ stage \in Paginated
    /\ fpc = "done"
    /\ locals' = [locals EXCEPT ![stage] = Some(fetch_result(stage, acc, limit))]
    /\ fpc' = "ret"
    /\ status' = IF status = "call" THEN "returned" ELSE status
    /\ UNCHANGED <<run, token, stage, limit, acc, cursor, log, writes, disk,
                   writer, remote, rep>>

NoLocals == [i \in {Stages[k] : k \in 1..Len(Stages)} |-> Nothing]
EmptyDisk == [f \in Files |-> Nothing]
NoWriter == [f \in Files |-> 0]
NoReport == [ran |-> FALSE, wrote |-> FALSE, raised |-> FALSE,
             readme |-> Nothing]

\* A stand-alone call of one of the six fetch functions against an
\* unconstrained remote
InitFetch ==
    /\ run = 0
    /\ token = "tok"
    /\ status = "call"
    /\ stage \in Paginated
    /\ fpc = "while"
    /\ limit \in (IF IsLimited(stage) THEN 0..MaxLimit ELSE {0})
    /\ acc = <<>>
    /\ cursor = None
    /\ locals = NoLocals
    /\ log = <<>>
    /\ writes = <<>>
    /\ disk = EmptyDisk
    /\ writer = NoWriter
    /\ remote = FreeRemote
    /\ rep = NoReport

NextFetch == FetchRequest \/ FetchExit \/ FetchReturn

SpecFetch == InitFetch /\ [][NextFetch]_vars


-----------------------------------------------------------------------------
(* query_ecosystem.py: save_data and main *)

\* variant: the test of the token is lost
token_missing_unchecked(t) == FALSE

\* if not TOKEN
token_missing(t) == t = None \/ t = ""

\* variant: the followers and following counts are taken from each other
summary_of_swapped(loc, now) ==
    [timestamp |-> now,
     user |-> loc["user_info"].val.login,
     counts |-> [organizations |-> Len(loc["organizations"].val),
                 repositories  |-> Len(loc["repositories"].val),
                 followers     |-> Len(loc["following"].val),
                 following     |-> Len(loc["followers"].val),
                 starred_repos |-> Len(loc["starred_repos"].val),
                 gists         |-> Len(loc["gists"].val)]]

\* the summary record main() derives; the run number stands for the clock
summary_of(loc, now) ==
    [timestamp |-> now,
     user |-> loc["user_info"].val.login,
     counts |-> [organizations |-> Len(loc["organizations"].val),
                 repositories  |-> Len(loc["repositories"].val),
                 followers     |-> Len(loc["followers"].val),
                 following     |-> Len(loc["following"].val),
                 starred_repos |-> Len(loc["starred_repos"].val),
                 gists         |-> Len(loc["gists"].val)]]

\* a Collector process starts: module initialisation, then main() up to the
\* first request (or up to exit(1) when the token is missing)
MainStart ==
    /\ status = "idle"
    /\ run < MaxRuns
    /\ \E t \in Tokens, r \in Scenarios :
         /\ token' = t
         /\ remote' = IF token_missing(t) THEN remote ELSE r
         /\ status' = IF token_missing(t) THEN "exit1" ELSE "running"
    /\ run' = run + 1
    /\ stage' = "user_info"
    /\ fpc' = "call"
    /\ limit' = 0
    /\ acc' = <<>>
    /\ cursor' = None
    /\ locals' = NoLocals
    /\ log' = <<>>
    /\ writes' = <<>>
    /\ UNCHANGED <<disk, writer, rep>>

\* get_user_info(): one request, no pagination
UserInfoRequest ==
    /\ status = "running"
    /\ stage = "user_info"
    /\ fpc = "call"
    /\ \E resp \in ServeUser(remote) :
         LET r == graphql_query(resp) IN
         /\ log' = Append(log, LogEntry(stage, "NA", resp))
         /\ IF r.raised
            THEN /\ status' = "crashed"
                 /\ UNCHANGED <<fpc, locals>>
            ELSE /\ locals' = [locals EXCEPT ![stage] = Some(r.json)]
                 /\ fpc' = "ret"
                 /\ UNCHANGED status
    /\ UNCHANGED <<run, token, stage, limit, acc, cursor, writes, disk, writer,
                   remote, rep>>

NextStage(cat) == Stages[StageIndex(cat) + 1]

\* save_data(file, value) for the category just fetched, then the call of
\* the next fetch function up to its loop (or the step to the summary)
MainSave ==
    /\ status = "running"
    /\ stage # "summary"
    /\ fpc = "ret"
    /\ disk' = [disk EXCEPT ![FileOf(stage)] = Some(locals[stage].val)]
    /\ writer' = [writer EXCEPT ![FileOf(stage)] = run]
    /\ writes' = Append(writes, FileOf(stage))
    /\ stage' = NextStage(stage)
    /\ fpc' = IF NextStage(stage) = "summary" THEN "call" ELSE "while"
    /\ limit' = LimitArg(NextStage(stage))
    /\ acc' = <<>>
    /\ cursor' = None
    /\ UNCHANGED <<run, token, status, locals, log, remote, rep>>

\* the summary is derived from the locals and saved; main() returns
MainSummary ==
    /\ status = "running"
    /\ stage = "summary"
    /\ disk' = [disk EXCEPT !["summary.json"] = Some(summary_of(locals, run))]
    /\ writer' = [writer EXCEPT !["summary.json"] = run]
    /\ writes' = Append(writes, "summary.json")
    /\ status' = "done"
    /\ UNCHANGED <<run, token, stage, fpc, limit, acc, cursor, locals, log,
                   remote, rep>>


\* the Collector process ends: exit(1), the uncaught exception of a failed
\* request, or the return of main(); its memory is gone
ProcessExit ==
    /\ status \in {"exit1", "crashed", "done"}
    /\ status' = "idle"
    /\ token' = None
    /\ stage' = "user_info"
    /\ fpc' = "call"
    /\ limit' = 0
    /\ acc' = <<>>
    /\ cursor' = None
    /\ locals' = NoLocals
    /\ log' = <<>>
    /\ writes' = <<>>
    /\ UNCHANGED <<run, disk, writer, remote, rep>>

-----------------------------------------------------------------------------
(* generate_reports.py: strings *)

UpperChars == <<"A", "B", "C", "D", "E", "F", "G", "H", "I", "J", "K", "L", "M", "N", "O", "P", "Q", "R", "S", "T", "U", "V", "W", "X", "Y", "Z">>
LowerChars == <<"a", "b", "c", "d", "e", "f", "g", "h", "i", "j", "k", "l", "m", "n", "o", "p", "q", "r", "s", "t", "u", "v", "w", "x", "y", "z">>

\* str.lower(), character by character
lower_char(c) ==
    IF \E i \in 1..Len(UpperChars) : UpperChars[i] = c
    THEN LowerChars[CHOOSE i \in 1..Len(UpperChars) : UpperChars[i] = c]
    ELSE c

lower(str) == [i \in 1..Len(str) |-> lower_char(str[i])]

\* sub in str
contains(str, sub) ==
    \E i \in 0..(Len(str) - Len(sub)) : SubSeq(str, i + 1, i + Len(sub)) = sub

\* str.startswith(prefix)
startswith(str, prefix) ==
    /\ Len(str) >= Len(prefix)
    /\ SubSeq(str, 1, Len(prefix)) = prefix

\* any(x in login for x in subs)
any_in(login, subs) == \E k \in 1..Len(subs) : contains(login, subs[k])

-----------------------------------------------------------------------------
(* generate_reports.py: categorize_organizations *)

\* the keys of the categories dict, in insertion order
CategoryNames == <<"Core Cognitive", "Zone Network", "RegimA Network",
                   "O9 Network", "Echo Mirrors", "Special Purpose", "Other">>

CategorySet == {CategoryNames[i] : i \in 1..Len(CategoryNames)}

\* org.get('login', '')
org_login(org) == IF "login" \in DOMAIN org THEN org.login ELSE <<>>

\* variant: the first rule does not look for 'echo'
category_of_no_echo(org) ==
    LET login == lower(org_login(org)) IN
    IF any_in(login, <<<<"c", "o", "g">>, <<"o", "z">>>>)
    THEN "Core Cognitive"
    ELSE IF any_in(login, <<<<"z", "o", "n", "e">>, <<"r", "e", "z">>, <<"r", "z", "o", "n", "e">>>>)
    THEN "Zone Network"
    ELSE IF contains(login, <<"r", "e", "g", "i", "m", "a">>)
    THEN "RegimA Network"
    ELSE IF \/ startswith(login, <<"o", "9">>)
            \/ startswith(login, <<"o", "6">>)
            \/ contains(login, <<"e", "9">>)
    THEN "O9 Network"
    ELSE IF contains(login, <<"o", "r", "g", "-", "e", "c", "h", "o">>)
    THEN "Echo Mirrors"
    ELSE IF any_in(login, <<<<"u", "n", "i", "c", "o", "r", "n">>, <<"c", "o", "s", "m", "i", "c">>, <<"k", "a", "w">>, <<"h", "y", "p", "e", "r">>, <<"m", "a", "r", "d", "u", "k">>, <<"g", "n", "n">>>>)
    THEN "Special Purpose"
    ELSE "Other"

\* variant: the login is matched without lower()
category_of_cased(org) ==
    LET login == org_login(org) IN
    IF any_in(login, <<<<"c", "o", "g">>, <<"o", "z">>, <<"e", "c", "h", "o">>>>)
    THEN "Core Cognitive"
    ELSE IF any_in(login, <<<<"z", "o", "n", "e">>, <<"r", "e", "z">>, <<"r", "z", "o", "n", "e">>>>)
    THEN "Zone Network"
    ELSE IF contains(login, <<"r", "e", "g", "i", "m", "a">>)
    THEN "RegimA Network"
    ELSE IF \/ startswith(login, <<"o", "9">>)
            \/ startswith(login, <<"o", "6">>)
            \/ contains(login, <<"e", "9">>)
    THEN "O9 Network"
    ELSE IF contains(login, <<"o", "r", "g", "-", "e", "c", "h", "o">>)
    THEN "Echo Mirrors"
    ELSE IF any_in(login, <<<<"u", "n", "i", "c", "o", "r", "n">>, <<"c", "o", "s", "m", "i", "c">>, <<"k", "a", "w">>, <<"h", "y", "p", "e", "r">>, <<"m", "a", "r", "d", "u", "k">>, <<"g", "n", "n">>>>)
    THEN "Special Purpose"
    ELSE "Other"

\* the if / elif chain of the loop body
category_of(org) ==
    LET login == lower(org_login(org)) IN
    IF any_in(login, <<<<"c", "o", "g">>, <<"o", "z">>, <<"e", "c", "h", "o">>>>)
    THEN "Core Cognitive"
    ELSE IF any_in(login, <<<<"z", "o", "n", "e">>, <<"r", "e", "z">>, <<"r", "z", "o", "n", "e">>>>)
    THEN "Zone Network"
    ELSE IF contains(login, <<"r", "e", "g", "i", "m", "a">>)
    THEN "RegimA Network"
    ELSE IF \/ startswith(login, <<"o", "9">>)
            \/ startswith(login, <<"o", "6">>)
            \/ contains(login, <<"e", "9">>)
    THEN "O9 Network"
    ELSE IF contains(login, <<"o", "r", "g", "-", "e", "c", "h", "o">>)
    THEN "Echo Mirrors"
    ELSE IF any_in(login, <<<<"u", "n", "i", "c", "o", "r", "n">>, <<"c", "o", "s", "m", "i", "c">>, <<"k", "a", "w">>, <<"h", "y", "p", "e", "r">>, <<"m", "a", "r", "d", "u", "k">>, <<"g", "n", "n">>>>)
    THEN "Special Purpose"
    ELSE "Other"

\* categories[...].append(org), the effect of one iteration on the dict
categorize_step(categories, org) ==
    [categories EXCEPT ![category_of(org)] = Append(@, org)]

\* the dict returned: empty categories removed
categorize_organizations(orgs) ==
    LET categories == FoldLeft(categorize_step, [c \in CategorySet |-> <<>>], orgs)
    IN [k \in {c \in CategorySet : categories[c] # <<>>} |-> categories[k]]

-----------------------------------------------------------------------------
(* generate_reports.py: analyze_repositories and map_orgs_to_enterprises *)

EmptyDict == [k \in {} |-> 0]

\* d[k] += 1 on a defaultdict(int)
incr(d, k) ==
    IF k \in DOMAIN d THEN [d EXCEPT ![k] = @ + 1] ELSE d @@ (k :> 1)

\* the stats dict before the loop; languages_order is the insertion order of
\* the keys of stats['languages'], which a dict keeps
InitStats ==
    [public |-> 0, private |-> 0, forks |-> 0, original |-> 0, archived |-> 0,
     languages |-> EmptyDict, languages_order |-> <<>>,
     by_owner |-> EmptyDict]

\* variant: the else of the isPrivate test is lost
analyze_step_noelse(stats, repo) ==
    [public    |-> stats.public + 1,
     private   |-> IF repo.isPrivate THEN stats.private + 1 ELSE stats.private,
     forks     |-> IF repo.isFork THEN stats.forks + 1 ELSE stats.forks,
     original  |-> IF repo.isFork THEN stats.original ELSE stats.original + 1,
     archived  |-> IF repo.isArchived THEN stats.archived + 1 ELSE stats.archived,
     languages |-> IF repo.primaryLanguage.some
                   THEN incr(stats.languages, repo.primaryLanguage.name)
                   ELSE stats.languages,
     languages_order |->
         IF /\ repo.primaryLanguage.some
            /\ repo.primaryLanguage.name \notin DOMAIN stats.languages
         THEN Append(stats.languages_order, repo.primaryLanguage.name)
         ELSE stats.languages_order,
     by_owner  |-> incr(stats.by_owner, repo.owner)]

\* one iteration of the loop over the repositories
analyze_step(stats, repo) ==
    [public    |-> IF repo.isPrivate THEN stats.public ELSE stats.public + 1,
     private   |-> IF repo.isPrivate THEN stats.private + 1 ELSE stats.private,
     forks     |-> IF repo.isFork THEN stats.forks + 1 ELSE stats.forks,
     original  |-> IF repo.isFork THEN stats.original ELSE stats.original + 1,
     archived  |-> IF repo.isArchived THEN stats.archived + 1 ELSE stats.archived,
     languages |-> IF repo.primaryLanguage.some
                   THEN incr(stats.languages, repo.primaryLanguage.name)
                   ELSE stats.languages,
     languages_order |->
         IF /\ repo.primaryLanguage.some
            /\ repo.primaryLanguage.name \notin DOMAIN stats.languages
         THEN Append(stats.languages_order, repo.primaryLanguage.name)
         ELSE stats.languages_order,
     by_owner  |-> incr(stats.by_owner, repo.owner)]

\* for repo in repos: one pass, in list order
analyze_repositories(repos) == FoldLeft(analyze_step, InitStats, repos)

\* the enterprises the Reporter may find in enterprises.json (the Collector
\* writes no such file): organizations holds the member organizations as
\* nodes; the last enterprise of the list has none
Enterprise(n, slug, orgs) ==
    [name |-> n, slug |-> slug,
     organizations |-> [totalCount |-> Len(orgs), nodes |-> orgs]]

EnterpriseLists ==
    {<<>>,
     <<Enterprise("Cog", "cog", <<OrgNamed(1), OrgNamed(4)>>),
       Enterprise("Zone", "zone", <<OrgNamed(4)>>),
       Enterprise("Void", "void", <<>>)>>}

\* ent.get('organizations', {}).get('nodes', [])
ent_nodes(ent) ==
    IF "organizations" \in DOMAIN ent /\ "nodes" \in DOMAIN ent.organizations
    THEN ent.organizations.nodes
    ELSE <<>>

\* org.get('login'), the key of the mapping
org_key(org) == IF "login" \in DOMAIN org THEN org.login ELSE None

RECURSIVE map_ent_orgs(_, _, _)
map_ent_orgs(mapping, ent, orgs) ==
    IF orgs = <<>> THEN mapping
    ELSE map_ent_orgs(
            [k \in DOMAIN mapping \cup {org_key(Head(orgs))} |->
                IF k = org_key(Head(orgs))
                THEN [enterprise_name |-> ent.name, enterprise_slug |-> ent.slug]
                ELSE mapping[k]],
            ent, Tail(orgs))

RECURSIVE map_loop(_, _)
map_loop(enterprises, mapping) ==
    IF enterprises = <<>> THEN mapping
    ELSE map_loop(Tail(enterprises),
                  map_ent_orgs(mapping, Head(enterprises),
                               ent_nodes(Head(enterprises))))

map_orgs_to_enterprises(enterprises) == map_loop(enterprises, EmptyDict)


-----------------------------------------------------------------------------
(* generate_reports.py: load_json and generate_readme *)

\* variant: the file is looked up outside the data directory
load_json_elsewhere(d, filename) == Nothing

\* None when the file does not exist, else its content
load_json(d, filename) == d[filename]

\* sum(d.values())
RECURSIVE SumDictOver(_, _)
SumDictOver(d, keys) ==
    IF keys = {} THEN 0
    ELSE LET k == CHOOSE x \in keys : TRUE
         IN d[k] + SumDictOver(d, keys \ {k})

SumDict(d) == SumDictOver(d, DOMAIN d)

\* load_json(...) or []
or_empty(x) == IF x.some THEN x.val ELSE <<>>

\* summary['counts'].get('enterprises', 0)
enterprises_count(counts) ==
    IF "enterprises" \in DOMAIN counts THEN counts.enterprises ELSE 0

\* x.get('repositories', {}).get('totalCount', 0), the sort key
repo_count(org) ==
    IF "repositories" \in DOMAIN org /\ "totalCount" \in DOMAIN org.repositories
    THEN org.repositories.totalCount
    ELSE 0

\* sorted(org_list, key=repo count, reverse=True): descending and stable,
\* organizations with equal counts keep their order
sorted_by_repos(org_list) ==
    LET n == Len(org_list)
        before(j, i) ==
            \/ repo_count(org_list[j]) > repo_count(org_list[i])
            \/ repo_count(org_list[j]) = repo_count(org_list[i]) /\ j < i
        rank(i) == Cardinality({j \in 1..n : before(j, i)}) + 1
    IN [p \in 1..n |-> org_list[CHOOSE i \in 1..n : rank(i) = p]]

\* sorted(repo_stats['languages'].items(), key=count, reverse=True)[:10]:
\* descending and stable on the dict's insertion order
sorted_languages(repo_stats) ==
    LET keys == repo_stats.languages_order
        n == Len(keys)
        count(i) == repo_stats.languages[keys[i]]
        before(j, i) ==
            \/ count(j) > count(i)
            \/ count(j) = count(i) /\ j < i
        rank(i) == Cardinality({j \in 1..n : before(j, i)}) + 1
        items == [p \in 1..n |->
                    LET i == CHOOSE k \in 1..n : rank(k) = p
                    IN [language |-> keys[i], count |-> count(i)]]
    IN PySlice(items, TopLanguages)

\* the Enterprise -> Organization Mapping: one table for each enterprise
\* that has organizations, its rows sorted by repository count
enterprise_mapping(enterprises) ==
    LET with_orgs == SelectSeq(enterprises, LAMBDA ent : ent_nodes(ent) # <<>>)
    IN [i \in 1..Len(with_orgs) |->
          [name |-> with_orgs[i].name, slug |-> with_orgs[i].slug,
           orgs |-> sorted_by_repos(ent_nodes(with_orgs[i]))]]

\* summary.get('timestamp', 'Unknown')
last_updated(summary) ==
    IF "timestamp" \in DOMAIN summary THEN summary.timestamp ELSE "Unknown"

\* The document written to README.md, as the values its text is rendered
\* from, in the order of its tables: the overview, the enterprises and their
\* mapping, for each category its first TopOrgs organizations by repository
\* count, the statistics, the language rows (the percentage column is
\* rendered from count and total_with_lang) and the first RecentRepos
\* repositories.
readme_content(summary, enterprises, orgs, repos, org_categories, repo_stats) ==
    [last_updated |-> last_updated(summary),
     overview |-> [enterprises   |-> enterprises_count(summary.counts),
                   organizations |-> summary.counts.organizations,
                   repositories  |-> summary.counts.repositories,
                   followers     |-> summary.counts.followers,
                   following     |-> summary.counts.following,
                   starred_repos |-> summary.counts.starred_repos,
                   gists         |-> summary.counts.gists],
     enterprises |-> enterprises,
     enterprise_mapping |-> enterprise_mapping(enterprises),
     sections |-> [c \in DOMAIN org_categories |->
                      PySlice(sorted_by_repos(org_categories[c]), TopOrgs)],
     total_repositories |-> Len(repos),
     repo_stats |-> repo_stats,
     total_with_lang |-> SumDict(repo_stats.languages),
     language_rows |-> sorted_languages(repo_stats),
     recent |-> PySlice(repos, RecentRepos)]

\* not summary: the file is absent, or holds null or an empty document
summary_falsy(summary) == ~summary.some \/ DOMAIN summary.val = {}

\* summary['counts'][...] raises KeyError when a key is missing
summary_key_error(summary) ==
    \/ "counts" \notin DOMAIN summary
    \/ \E k \in {"organizations", "repositories", "followers", "following",
                 "starred_repos", "gists"} : k \notin DOMAIN summary.counts

\* generate_readme(), run as a process of its own while no Collector runs
GenerateReadme ==
    /\ status = "idle"
    /\ LET summary     == load_json(disk, "summary.json")
           user_info   == load_json(disk, "user_info.json")
           enterprises == or_empty(load_json(disk, "enterprises.json"))
           orgs        == or_empty(load_json(disk, "organizations.json"))
           repos       == or_empty(load_json(disk, "repositories.json"))
           loaded      == [summary |-> summary, enterprises |-> enterprises,
                           orgs |-> orgs, repos |-> repos,
                           found |-> {f \in Files : disk[f].some}]
       IN
       IF summary_falsy(summary)
       THEN \* "No summary data found, skipping README generation"
            rep' = [ran |-> TRUE, wrote |-> FALSE, raised |-> FALSE,
                    readme |-> rep.readme, loaded |-> loaded]
       ELSE IF summary_key_error(summary.val)
       THEN \* KeyError while the content is built: README.md is not opened
            rep' = [ran |-> TRUE, wrote |-> FALSE, raised |-> TRUE,
                    readme |-> rep.readme, loaded |-> loaded]
       ELSE LET org_categories == categorize_organizations(orgs)
                repo_stats == analyze_repositories(repos)
                enterprise_org_map == map_orgs_to_enterprises(enterprises)
            IN rep' = [ran |-> TRUE, wrote |-> TRUE, raised |-> FALSE,
                       readme |-> Some(readme_content(summary.val, enterprises,
                                          orgs, repos, org_categories, repo_stats)),
                       loaded |-> loaded,
                       org_categories |-> org_categories,
                       repo_stats |-> repo_stats,
                       enterprise_org_map |-> enterprise_org_map,
                       sources |-> [summary       |-> writer["summary.json"],
                                    organizations |-> writer["organizations.json"],
                                    repositories  |-> writer["repositories.json"]]]
    /\ UNCHANGED ColVars

-----------------------------------------------------------------------------
(* Specifications *)

\* The data directory is empty and no process has run; Collector processes
\* and Reporter processes then run one at a time, in any order.
Init ==
    /\ run = 0
    /\ token = None
    /\ status = "idle"
    /\ stage = "user_info"
    /\ fpc = "call"
    /\ limit = 0
    /\ acc = <<>>
    /\ cursor = None
    /\ locals = NoLocals
    /\ log = <<>>
    /\ writes = <<>>
    /\ disk = EmptyDisk
    /\ writer = NoWriter
    /\ remote = "small"
    /\ rep = NoReport

Next ==
    \/ MainStart
    \/ UserInfoRequest
    \/ FetchRequest
    \/ FetchExit
    \/ FetchReturn
    \/ MainSave
    \/ MainSummary
    \/ ProcessExit
    \/ GenerateReadme

Spec == Init /\ [][Next]_vars

\* The Collector with the credential present and every request answered
\* with a success: steps are those of Spec that neither raise nor exit(1).
NoFailure == status' \notin {"crashed", "exit1"}

LiveStart == MainStart /\ NoFailure
LiveUserInfo == UserInfoRequest /\ NoFailure
LiveFetch == FetchRequest /\ NoFailure

\* the steps of a started Collector process up to the return of main()
RunStep ==
    \/ LiveUserInfo
    \/ LiveFetch
    \/ FetchExit
    \/ FetchReturn
    \/ MainSave
    \/ MainSummary

NextLive ==
    \/ LiveStart
    \/ LiveUserInfo
    \/ LiveFetch
    \/ FetchExit
    \/ FetchReturn
    \/ MainSave
    \/ MainSummary
    \/ ProcessExit

\* The process is single-threaded and synchronous: once started it executes
\* its next statement, and every request it issues is answered.
SpecLive == Init /\ [][NextLive]_vars /\ WF_vars(RunStep)

\* a summary.json as main() writes it
SampleSummary ==
    [timestamp |-> 1, user |-> "drzo",
     counts |-> [organizations |-> 2, repositories |-> 3, followers |-> 2,
                 following |-> 0, starred_repos |-> 1, gists |-> 1]]

\* what load_json("summary.json") may read: no file, the document main()
\* writes, and two documents main() does not write, on which the guard
\* `not summary` and the lookups of the counts are more than a presence
\* test: an empty document and one without counts
SummaryFiles ==
    {Nothing, Some(SampleSummary), Some(EmptyDict), Some([timestamp |-> 1])}

\* the snapshot lists the Reporter is run on: organization lists with the
\* repositories absent or empty, and repository lists likewise
ReporterLists ==
    ({Nothing} \cup {Some(o) : o \in SeqUpTo(OrgPool, MaxOrgs)})
        \X {Nothing, Some(<<>>)}
    \cup
    {Nothing, Some(<<>>)}
        \X ({Nothing} \cup {Some(r) : r \in SeqUpTo(RepoPool, MaxRepos)})

\* A Reporter process run on a data directory holding any combination of the
\* snapshots it reads
InitReporter ==
    /\ run = 0
    /\ token = None
    /\ status = "idle"
    /\ stage = "user_info"
    /\ fpc = "call"
    /\ limit = 0
    /\ acc = <<>>
    /\ cursor = None
    /\ locals = NoLocals
    /\ log = <<>>
    /\ writes = <<>>
    /\ \E s \in SummaryFiles,
          e \in {Nothing} \cup {Some(l) : l \in EnterpriseLists},
          l \in ReporterLists :
         disk = [EmptyDisk EXCEPT !["summary.json"] = s,
                                  !["enterprises.json"] = e,
                                  !["organizations.json"] = l[1],
                                  !["repositories.json"] = l[2]]
    /\ writer = NoWriter
    /\ remote = "small"
    /\ rep = NoReport

NextReporter == GenerateReadme

SpecReporter == InitReporter /\ [][NextReporter]_vars


-----------------------------------------------------------------------------
(* Properties of the paginated fetches (SpecFetch) *)

\* the items of the pages received, page after page
RECURSIVE Flat(_)
Flat(l) ==
    IF l = <<>> THEN <<>>
    ELSE Flat(SubSeq(l, 1, Len(l) - 1)) \o l[Len(l)].body.nodes

RECURSIVE SumSizes(_)
SumSizes(l) ==
    IF l = <<>> THEN 0
    ELSE SumSizes(Tail(l)) + Len(Head(l).body.nodes)

Returned == status = "returned" /\ locals[stage].some

\* C1: a fetch without a limit returns the concatenation, in the order
\* received, of the item lists of all pages it fetched; the length of the
\* result is the sum of the page sizes.
C1_UnlimitedIsConcatenation ==
    (Returned /\ ~IsLimited(stage)) =>
        /\ \A i \in 1..Len(log) : log[i].kind = "ok"
        /\ locals[stage].val = Flat(log)
        /\ Len(locals[stage].val) = SumSizes(log)

\* an unlimited fetch returned two pages that share an item
C1_Witness ==
    /\ Returned
    /\ ~IsLimited(stage)
    /\ Len(log) = 2
    /\ locals[stage].val = <<"b", "a", "a">>

\* C2: a fetch with limit L >= 0 returns at most L items, exactly the first
\* min(L, n) of the n items accumulated from the pages fetched.
C2_LimitedIsPrefix ==
    (Returned /\ IsLimited(stage) /\ limit >= 0) =>
        LET result == locals[stage].val
            all == Flat(log)
        IN /\ Len(result) <= limit
           /\ Len(result) = Min(limit, Len(all))
           /\ \A i \in 1..Len(result) : result[i] = all[i]

\* a limited fetch accumulated more than its limit and cut the excess
C2_Witness ==
    /\ Returned
    /\ IsLimited(stage)
    /\ limit = 1
    /\ Flat(log) = <<"b", "a">>
    /\ locals[stage].val = <<"b">>

\* C10: the first request carries no cursor and every later one the end
\* cursor of the page before it; nothing is requested after a page without
\* a further page, nor, in a limited fetch, once the items accumulated have
\* reached the limit.
C10_CursorChain ==
    /\ Len(log) >= 1 => log[1].cursor = None
    /\ \A i \in 2..Len(log) :
         /\ log[i - 1].kind = "ok"
         /\ log[i - 1].body.hasNextPage
         /\ log[i].cursor = log[i - 1].body.endCursor
    /\ IsLimited(stage) =>
         \A i \in 1..Len(log) : Len(Flat(SubSeq(log, 1, i - 1))) < limit

\* a limited fetch issued a second request, with the cursor of the first page
C10_Witness ==
    /\ IsLimited(stage)
    /\ Len(log) = 2
    /\ log[1].body.endCursor = "c2"
    /\ log[2].cursor = "c2"


-----------------------------------------------------------------------------
(* Properties of a Collector run (Spec) *)

Range(f) == {f[x] : x \in DOMAIN f}

Failed(entry) == entry.kind # "ok"

C3_State ==
    /\ (\E i \in 1..Len(log) : Failed(log[i])) =>
          /\ status = "crashed"
          /\ \A i \in 1..(Len(log) - 1) : ~Failed(log[i])
    /\ status = "crashed" =>
          /\ log # <<>>
          /\ Failed(log[Len(log)])
          /\ "summary.json" \notin Range(writes)
          /\ writer["summary.json"] # run

C3_Step ==
    status = "crashed" =>
        /\ status' \in {"crashed", "idle"}
        /\ run' = run
        /\ Len(log') <= Len(log)
        /\ Len(writes') <= Len(writes)
        /\ disk' = disk
        /\ writer' = writer

\* C3: a failed request aborts the run at once: the failed request is the
\* last one the run issues, the run is in its failure state, and from then
\* on it issues no request and writes no snapshot until the process has
\* ended; it never writes summary.json.
C3_AbortOnFailure == []C3_State /\ [][C3_Step]_vars

\* a second run failed after it had written two snapshots, with the
\* summary of the first run on disk
C3_Witness ==
    /\ status = "crashed"
    /\ run = 2
    /\ writes = <<"user_info.json", "organizations.json">>
    /\ log[Len(log)].kind = "http_error"
    /\ writer["summary.json"] = 1

\* C4: a run whose credential is absent exits with failure status without
\* having issued a request or written a snapshot; a run issues requests
\* only with the credential present.
C4_MissingTokenIsFatal ==
    /\ (status # "idle" /\ token \in {None, ""}) =>
          /\ status = "exit1"
          /\ log = <<>>
          /\ writes = <<>>
          /\ \A f \in Files : writer[f] # run
    /\ status = "exit1" => token \in {None, ""}
    /\ log # <<>> => token \notin {None, ""}

\* a run found the credential set to the empty string and exited
C4_Witness ==
    /\ status = "exit1"
    /\ token = ""
    /\ run = 2
    /\ disk["summary.json"].some

\* C5: every report the Reporter writes is computed from snapshots that one
\* and the same complete Collector run wrote.
C5_ReportFromOneCompleteRun ==
    rep.wrote =>
        /\ rep.sources.organizations = rep.sources.summary
        /\ rep.sources.repositories = rep.sources.summary

CountNames == {"organizations", "repositories", "followers", "following",
               "starred_repos", "gists"}

\* C6: a run that writes summary.json has fetched and written the seven
\* categories before, in main()'s order, and each count of the summary is
\* the length of the collection the run wrote; the counts of repositories
\* and starred repositories do not exceed their limits, and there is no
\* enterprises count.
C6_SummaryLast ==
    "summary.json" \in Range(writes) =>
        /\ writes = [i \in 1..Len(Stages) |-> FileOf(Stages[i])]
        /\ \A f \in Range(writes) : writer[f] = run
        /\ \A i \in 1..(Len(Stages) - 1) :
              \E k \in 1..Len(log) : log[k].cat = Stages[i] /\ log[k].kind = "ok"
        /\ \A j, k \in 1..Len(log) :
              j < k => StageIndex(log[j].cat) <= StageIndex(log[k].cat)
        /\ LET counts == disk["summary.json"].val.counts IN
              /\ DOMAIN counts = CountNames
              /\ \A c \in CountNames : counts[c] = Len(disk[FileOf(c)].val)
              /\ counts.repositories <= RepoLimit
              /\ counts.starred_repos <= StarredLimit

\* a run on the large account wrote a summary with both limits reached
C6_Witness ==
    /\ status = "done"
    /\ "summary.json" \in Range(writes)
    /\ disk["summary.json"].val.counts.repositories = RepoLimit
    /\ disk["summary.json"].val.counts.starred_repos = StarredLimit
    /\ disk["summary.json"].val.counts.followers = 2

-----------------------------------------------------------------------------
(* Properties of the Reporter (SpecReporter) *)

\* the optional snapshots that are absent are read as empty lists
AbsentReadAsEmpty ==
    /\ ~disk["enterprises.json"].some =>
          /\ rep.readme.val.enterprises = <<>>
          /\ rep.readme.val.enterprise_mapping = <<>>
    /\ ~disk["organizations.json"].some =>
          DOMAIN rep.readme.val.sections = {}
    /\ ~disk["repositories.json"].some =>
          /\ rep.readme.val.total_repositories = 0
          /\ rep.readme.val.language_rows = <<>>
          /\ rep.readme.val.recent = <<>>

\* summary.json is a summary snapshot: the document main() writes, with its
\* timestamp, user and six counts
SummarySnapshot ==
    /\ disk["summary.json"].some
    /\ {"timestamp", "user", "counts"} \subseteq DOMAIN disk["summary.json"].val
    /\ CountNames \subseteq DOMAIN disk["summary.json"].val.counts

\* C7: on a data directory whose summary.json is absent or a summary
\* snapshot, a call of the Reporter writes README.md exactly when the
\* snapshot is present; without it the call returns normally having written
\* nothing, whatever other snapshots exist; with it the report is written
\* with every absent optional snapshot read as an empty list.
C7_ReportIffSummary ==
    rep.ran /\ (SummarySnapshot \/ ~disk["summary.json"].some) =>
        /\ ~rep.raised
        /\ rep.wrote <=> disk["summary.json"].some
        /\ rep.readme.some <=> disk["summary.json"].some
        /\ rep.wrote => AbsentReadAsEmpty

\* the report was written from a directory holding the summary alone
C7_Witness ==
    /\ rep.wrote
    /\ SummarySnapshot
    /\ rep.readme.some
    /\ \A f \in Files : disk[f].some <=> f = "summary.json"

\* the rules of categorize_organizations, by position
RuleHolds(i, login) ==
    CASE i = 1 -> \/ contains(login, <<"c", "o", "g">>)
                  \/ contains(login, <<"o", "z">>)
                  \/ contains(login, <<"e", "c", "h", "o">>)
      [] i = 2 -> \/ contains(login, <<"z", "o", "n", "e">>)
                  \/ contains(login, <<"r", "e", "z">>)
                  \/ contains(login, <<"r", "z", "o", "n", "e">>)
      [] i = 3 -> contains(login, <<"r", "e", "g", "i", "m", "a">>)
      [] i = 4 -> \/ startswith(login, <<"o", "9">>)
                  \/ startswith(login, <<"o", "6">>)
                  \/ contains(login, <<"e", "9">>)
      [] i = 5 -> contains(login, <<"o", "r", "g", "-", "e", "c", "h", "o">>)
      [] i = 6 -> \/ contains(login, <<"u", "n", "i", "c", "o", "r", "n">>)
                  \/ contains(login, <<"c", "o", "s", "m", "i", "c">>)
                  \/ contains(login, <<"k", "a", "w">>)
                  \/ contains(login, <<"h", "y", "p", "e", "r">>)
                  \/ contains(login, <<"m", "a", "r", "d", "u", "k">>)
                  \/ contains(login, <<"g", "n", "n">>)

\* the category of the first rule the lowercased login matches
FirstMatch(login) ==
    IF \E i \in 1..6 : RuleHolds(i, login)
    THEN CategoryNames[CHOOSE i \in 1..6 :
            /\ RuleHolds(i, login)
            /\ \A j \in 1..(i - 1) : ~RuleHolds(j, login)]
    ELSE "Other"

LoweredLogin(org) == lower(org_login(org))

RECURSIVE SumLens(_, _)
SumLens(d, keys) ==
    IF keys = {} THEN 0
    ELSE LET k == CHOOSE x \in keys : TRUE
         IN Len(d[k]) + SumLens(d, keys \ {k})

\* C8: every organization is in exactly one category list of the result,
\* that of the first rule its lowercased login matches or 'Other'; equal
\* lowercased logins get equal categories; empty categories are absent.
C8_CategorizeIsTotal ==
    rep.wrote =>
        LET orgs == rep.loaded.orgs
            result == rep.org_categories
        IN /\ DOMAIN result \subseteq CategorySet
           /\ \A c \in DOMAIN result : result[c] # <<>>
           /\ SumLens(result, DOMAIN result) = Len(orgs)
           /\ \A c \in CategorySet :
                 LET members == SelectSeq(orgs,
                                   LAMBDA o : FirstMatch(LoweredLogin(o)) = c)
                 IN IF members = <<>> THEN c \notin DOMAIN result
                    ELSE c \in DOMAIN result /\ result[c] = members
           /\ \A i, j \in 1..Len(orgs) :
                 LoweredLogin(orgs[i]) = LoweredLogin(orgs[j]) =>
                    \A c \in DOMAIN result :
                       orgs[i] \in Range(result[c]) <=> orgs[j] \in Range(result[c])

\* a list of two organizations in two categories, the second of which
\* ('hyperzone') matches the Zone Network rule before the Special Purpose one
C8_Witness ==
    /\ rep.wrote
    /\ rep.loaded.orgs = <<OrgNamed(2), OrgNamed(5)>>
    /\ DOMAIN rep.org_categories = {"Core Cognitive", "Zone Network"}

RECURSIVE SumCounts(_, _)
SumCounts(d, keys) ==
    IF keys = {} THEN 0
    ELSE LET k == CHOOSE x \in keys : TRUE
         IN d[k] + SumCounts(d, keys \ {k})

StatsConsistent(stats, repos) ==
    /\ stats.public + stats.private = Len(repos)
    /\ stats.forks + stats.original = Len(repos)
    /\ stats.archived <= Len(repos)
    /\ SumCounts(stats.languages, DOMAIN stats.languages)
          = Len(repos) - Cardinality({i \in 1..Len(repos) :
                                         ~repos[i].primaryLanguage.some})

\* C9: the statistics of a repository list add up: public + private and
\* forks + original are the number of repositories, archived is at most
\* that, and the language counts sum to the number of repositories with a
\* primary language; the same holds after each repository of the pass.
C9_StatsConsistent ==
    rep.wrote =>
        /\ StatsConsistent(rep.repo_stats, rep.loaded.repos)
        /\ \A k \in 0..Len(rep.loaded.repos) :
              StatsConsistent(
                  analyze_repositories(SubSeq(rep.loaded.repos, 1, k)),
                  SubSeq(rep.loaded.repos, 1, k))

\* a public fork written in Go and a private repository without language
C9_Witness ==
    /\ rep.wrote
    /\ rep.loaded.repos = <<RepoNamed("drzo/a"), RepoNamed("drzo/b")>>
    /\ rep.repo_stats.public = 1
    /\ rep.repo_stats.private = 1
    /\ rep.repo_stats.forks = 1
    /\ rep.repo_stats.original = 1
    /\ rep.repo_stats.languages = ("Go" :> 1)


-----------------------------------------------------------------------------
(* Termination of the Collector (SpecLive) *)

\* C11: with the credential present, no failing request and every
\* collection served as a finite chain of pages, every pagination loop is
\* left and the run writes summary.json and returns; a limited fetch is left
\* as well when the remote still announces a further page, once the items
\* received reach the limit.
C11_RunsToCompletion ==
    /\ (status = "running") ~>
          (status = "done" /\ "summary.json" \in Range(writes))
    /\ (status = "running" /\ fpc = "while") ~> (fpc = "ret")

\* a run on the large account returned: its last repositories page still
\* announced a further page when the limit was reached
C11_Witness ==
    /\ status = "done"
    /\ remote = "big"
    /\ disk["summary.json"].some
    /\ writer["summary.json"] = run
    /\ Len(locals["repositories"].val) = RepoLimit
    /\ \E i \in 1..Len(log) :
          /\ log[i].cat = "repositories"
          /\ log[i].body.hasNextPage
          /\ log[i + 1].cat = "followers"


-----------------------------------------------------------------------------
(* The 'Echo Mirrors' category (SpecReporter) *)

OrgEcho == <<"o", "r", "g", "-", "e", "c", "h", "o">>

\* logins that hold 'org-echo' in some casing, alone or inside a longer name
EchoLogins ==
    {pre \o mid \o post :
        pre \in {<<>>, <<"x", "-">>, <<"9">>},
        mid \in {OrgEcho,
                 <<"O", "R", "G", "-", "E", "C", "H", "O">>,
                 <<"O", "r", "g", "-", "E", "c", "h", "o">>},
        post \in {<<>>, <<"-", "1">>, <<"9">>}}

EchoLoginsAreCore ==
    \A l \in EchoLogins :
        /\ contains(lower(l), OrgEcho)
        /\ category_of([id |-> 0, login |-> l]) = "Core Cognitive"

\* C12: no organization is ever assigned to 'Echo Mirrors': an organization
\* whose lowercased login contains 'org-echo' is in the 'Core Cognitive'
\* list, so the 'Echo Mirrors' key is absent from the result of
\* categorize_organizations and the README has no such section.
C12_NoEchoMirrors ==
    rep.wrote =>
        LET orgs == rep.loaded.orgs
            result == rep.org_categories
        IN /\ EchoLoginsAreCore
           /\ "Echo Mirrors" \notin DOMAIN result
           /\ "Echo Mirrors" \notin DOMAIN rep.readme.val.sections
           /\ \A c \in DOMAIN result : \A i \in 1..Len(result[c]) :
                 contains(LoweredLogin(result[c][i]), OrgEcho)
                    => c = "Core Cognitive"
           /\ \A i \in 1..Len(orgs) :
                 contains(LoweredLogin(orgs[i]), OrgEcho)
                    => /\ "Core Cognitive" \in DOMAIN result
                       /\ orgs[i] \in Range(result["Core Cognitive"])

\* a report over a list holding an 'org-echo' login and nothing else that
\* the first rule takes
C12_Witness ==
    /\ rep.wrote
    /\ rep.loaded.orgs = <<OrgNamed(11), OrgNamed(13)>>
    /\ DOMAIN rep.org_categories = {"Core Cognitive", "Other"}
    /\ rep.org_categories["Core Cognitive"] = <<OrgNamed(11)>>
    /\ DOMAIN rep.readme.val.sections = {"Core Cognitive", "Other"}

=============================================================================
